---- MODULE Spec2Model ----
(***************************************************************************)
(* share/paint/i18n.py: extraction of the translatable identifiers of the  *)
(* 'pattern' elements of the SVG files named on the command line.          *)
(*                                                                         *)
(* A string is a sequence of one-character strings, so that the text on    *)
(* standard output is what the writes concatenate to, character by         *)
(* character.  An element is a record [tagName, attributes, childNodes];   *)
(* attributes is a function from the names of the attributes the element   *)
(* carries to their values, so an absent attribute and an attribute whose  *)
(* value is the empty string are different inputs.                         *)
(***************************************************************************)
EXTENDS Naturals, Sequences, FiniteSets

VARIABLES
    nargs,       \* len(sys.argv[1:]): the number of files named on the command line
    files,       \* the files the outer loop has opened so far, as minidom.parse
                 \* found them: files[i] is what the i-th argument names
    pc,          \* the statement the script is at
    filters,     \* the node list of the file being processed
    fi,          \* how many elements of filters the inner loop has taken
    out,         \* the characters written to sys.stdout
    exitStatus,  \* <<>> while the process runs, then <<its exit status>>
    events       \* history: the parses attempted and the writes made, in order

vars == <<nargs, files, pc, filters, fi, out, exitStatus, events>>

(***************************************************************************)
(* Bounds of the model.                                                    *)
(***************************************************************************)
MaxFiles == 2    \* at most this many command-line arguments
MaxNodes == 3    \* at most this many elements in all the files together

(***************************************************************************)
(* Inputs.                                                                 *)
(***************************************************************************)
Empty == <<>>

StockidName == "inkscape:stockid"
LabelName == "inkscape:label"

\* The values an inkscape:stockid and an inkscape:label take in the model.
StockidValues == {Empty, <<"a">>}
LabelValues == {Empty, <<"b">>}

\* Every way to carry none, one or both of the two attributes.
AttributeMaps ==
    UNION {[names -> StockidValues \cup LabelValues] : names \in SUBSET {StockidName, LabelName}}

\* The attributes of the 'pattern' elements of the model: an element carries
\* none, one or both of the attributes; an attribute with the empty string
\* as its value is modelled on the elements that carry both.
PatternAttributes ==
    {m \in AttributeMaps :
        /\ StockidName \in DOMAIN m => m[StockidName] \in StockidValues
        /\ LabelName \in DOMAIN m => m[LabelName] \in LabelValues
        /\ DOMAIN m # {StockidName, LabelName} => \A name \in DOMAIN m : m[name] # Empty}

\* The script reads no attribute of an element that is not a 'pattern': such
\* elements carry both attributes, non-empty.
OtherAttributes ==
    {m \in PatternAttributes :
        /\ DOMAIN m = {StockidName, LabelName}
        /\ m[StockidName] # Empty
        /\ m[LabelName] # Empty}

Heads ==
    {[tagName |-> "pattern", attributes |-> m] : m \in PatternAttributes}
        \cup {[tagName |-> "g", attributes |-> m] : m \in OtherAttributes}

RECURSIVE TreesOfSize(_), ForestsOfSize(_)

\* The elements with n elements in their subtree, themselves included.
TreesOfSize(n) ==
    IF n = 0 THEN {}
    ELSE {[tagName |-> h.tagName, attributes |-> h.attributes, childNodes |-> f] :
            h \in Heads, f \in ForestsOfSize(n - 1)}

\* The sequences of sibling elements with n elements in all.
ForestsOfSize(n) ==
    IF n = 0 THEN {<<>>}
    ELSE UNION {{<<t>> \o f : t \in TreesOfSize(k), f \in ForestsOfSize(n - k)} : k \in 1..n}

\* A file is well-formed XML with one document element, or it is a file the
\* parser fails on: missing or unreadable (no content), or malformed, the
\* well-formed leading part of it being an element.
FilesOfSize(n) ==
    {[wellformed |-> w, childNodes |-> <<t>>] : w \in BOOLEAN, t \in TreesOfSize(n)}
        \cup (IF n = 0 THEN {[wellformed |-> FALSE, childNodes |-> <<>>]} ELSE {})

\* Computed once: FileTable[n] is FilesOfSize(n).
FileTable == [n \in 0..MaxNodes |-> FilesOfSize(n)]

RECURSIVE Flatten(_)

\* The concatenation of a sequence of sequences.
Flatten(ss) == IF ss = <<>> THEN <<>> ELSE Head(ss) \o Flatten(Tail(ss))

RECURSIVE NumNodes(_)

\* The number of elements in a sequence of sibling elements.
NumNodes(nodes) ==
    IF nodes = <<>> THEN 0
    ELSE 1 + NumNodes(Head(nodes).childNodes) + NumNodes(Tail(nodes))

RECURSIVE NumNodesOfFiles(_)

NumNodesOfFiles(fs) ==
    IF fs = <<>> THEN 0
    ELSE NumNodes(Head(fs).childNodes) + NumNodesOfFiles(Tail(fs))

(***************************************************************************)
(* The script.                                                             *)
(***************************************************************************)
\* sys.stdout.write("char * stringlst = [")
Prefix ==
    <<"c", "h", "a", "r", " ", "*", " ", "s", "t", "r", "i", "n", "g", "l", "s", "t",
      " ", "=", " ", "[">>

\* sys.stdout.write("];")
Suffix == <<"]", ";">>

\* Mutant: the delimiter before the identifier's marker, not after it.
TokenAfterDelimiter(stockid) == <<",", "N", "_", "(", "\"">> \o stockid \o <<"\"", ")">>

\* Mutant: no delimiter.
TokenWithoutDelimiter(stockid) == <<"N", "_", "(", "\"">> \o stockid \o <<"\"", ")">>

\* "N_(\"" + stockid + "\"),"
Token(stockid) == <<"N", "_", "(", "\"">> \o stockid \o <<"\"", ")", ",">>

\* Mutant: a lenient parser, which returns what it could read.
ParsesAnything(rawdoc) == TRUE

\* minidom.parse(rawdoc) returns a document, or raises.
Parses(rawdoc) == rawdoc.wellformed

RECURSIVE GetElementsByTagNameHelper(_, _)

\* minidom's helper: the elements below the nodes, each before its
\* descendants and before its later siblings, that have the tag name (any
\* tag name when name is "*").
GetElementsByTagNameHelper(nodes, name) ==
    IF nodes = <<>> THEN <<>>
    ELSE LET node == Head(nodes)
         IN  (IF name = "*" \/ node.tagName = name THEN <<node>> ELSE <<>>)
                \o GetElementsByTagNameHelper(node.childNodes, name)
                \o GetElementsByTagNameHelper(Tail(nodes), name)

RECURSIVE GetElementsChildrenFirst(_, _)

\* Mutant: the elements with the tag name, each after its descendants.
GetElementsChildrenFirst(nodes, name) ==
    IF nodes = <<>> THEN <<>>
    ELSE LET node == Head(nodes)
         IN  GetElementsChildrenFirst(node.childNodes, name)
                \o (IF node.tagName = name THEN <<node>> ELSE <<>>)
                \o GetElementsChildrenFirst(Tail(nodes), name)

\* Mutant: the node list in another order than the document's.
GetElementsByTagNameUnordered(doc, name) == GetElementsChildrenFirst(doc.childNodes, name)

\* Mutant: the tag name is not looked at.
GetElementsOfAnyTagName(doc, name) == GetElementsByTagNameHelper(doc.childNodes, "*")

\* Mutant: only the document element and its children are looked at.
GetElementsNearTheRoot(doc, name) ==
    LET near == Flatten([i \in 1..Len(doc.childNodes) |->
                            <<doc.childNodes[i]>> \o doc.childNodes[i].childNodes])
    IN  SelectSeq(near, LAMBDA node : node.tagName = name)

\* doc.getElementsByTagName(name)
GetElementsByTagName(doc, name) == GetElementsByTagNameHelper(doc.childNodes, name)

\* filter.getAttribute(name): the value, or "" when the element has no such attribute
GetAttribute(node, name) ==
    IF name \in DOMAIN node.attributes THEN node.attributes[name] ELSE Empty

\* Mutant: the label is preferred to the stockid.
StockidAfterLabel(filter) ==
    LET label == GetAttribute(filter, LabelName)
    IN  IF label = Empty THEN GetAttribute(filter, StockidName) ELSE label

\* stockid after lines 14-16
Stockid(filter) ==
    LET stockid == GetAttribute(filter, StockidName)
    IN  IF stockid = Empty THEN GetAttribute(filter, LabelName) ELSE stockid

\* Mutant: every identifier is written, the empty one too.
EmitsAlways(stockid) == TRUE

\* the condition of line 17
Emits(stockid) == stockid # Empty

\* The entries of the history: a write of a text (what: "prefix", "token" or
\* "suffix") while the outer loop was at the file-th file, or the parse of the
\* file-th file.
WriteEvent(what, text) == [op |-> what, file |-> Len(files), text |-> text]
ParseEvent(n) == [op |-> "parse", file |-> n, text |-> Empty]

Init ==
    /\ nargs \in 0..MaxFiles
    /\ files = <<>>
    /\ pc = "prefix"
    /\ filters = <<>>
    /\ fi = 0
    /\ out = Empty
    /\ exitStatus = <<>>
    /\ events = <<>>

\* line 7
WritePrefix ==
    /\ pc = "prefix"
    /\ out' = out \o Prefix
    /\ events' = Append(events, WriteEvent("prefix", Prefix))
    /\ pc' = "for"
    /\ UNCHANGED <<nargs, files, filters, fi, exitStatus>>

\* lines 9-11, the next file parses
ParseOk ==
    /\ pc = "for"
    /\ Len(files) < nargs
    /\ \E n \in 0..(MaxNodes - NumNodesOfFiles(files)) : \E rawdoc \in FileTable[n] :
        /\ Parses(rawdoc)
        /\ files' = Append(files, rawdoc)
        /\ filters' = GetElementsByTagName(rawdoc, "pattern")
    /\ fi' = 0
    /\ events' = Append(events, ParseEvent(Len(files) + 1))
    /\ pc' = "filters"
    /\ UNCHANGED <<nargs, out, exitStatus>>

\* Mutant: the tokens of the elements read before the failure are written.
ParseRaisesAfterWriting ==
    /\ pc = "for"
    /\ Len(files) < nargs
    /\ \E n \in 0..(MaxNodes - NumNodesOfFiles(files)) : \E rawdoc \in FileTable[n] :
        /\ ~Parses(rawdoc)
        /\ files' = Append(files, rawdoc)
        /\ LET fs == GetElementsByTagName(rawdoc, "pattern")
               ts == Flatten([i \in 1..Len(fs) |->
                        IF Emits(Stockid(fs[i])) THEN Token(Stockid(fs[i])) ELSE Empty])
           IN  out' = out \o ts
    /\ events' = Append(events, ParseEvent(Len(files) + 1))
    /\ pc' = "raised"
    /\ exitStatus' = <<1>>
    /\ UNCHANGED <<nargs, filters, fi>>

\* lines 9-10, minidom.parse raises on the next file: nothing catches it, the
\* interpreter prints the traceback on stderr, flushes stdout and exits with
\* status 1
ParseRaises ==
    /\ pc = "for"
    /\ Len(files) < nargs
    /\ \E n \in 0..(MaxNodes - NumNodesOfFiles(files)) : \E rawdoc \in FileTable[n] :
        /\ ~Parses(rawdoc)
        /\ files' = Append(files, rawdoc)
    /\ events' = Append(events, ParseEvent(Len(files) + 1))
    /\ pc' = "raised"
    /\ exitStatus' = <<1>>
    /\ UNCHANGED <<nargs, filters, fi, out>>

\* lines 13-18, an element whose identifier is written
WriteToken ==
    /\ pc = "filters"
    /\ fi < Len(filters)
    /\ LET stockid == Stockid(filters[fi + 1])
       IN  /\ Emits(stockid)
           /\ out' = out \o Token(stockid)
           /\ events' = Append(events, WriteEvent("token", Token(stockid)))
    /\ fi' = fi + 1
    /\ UNCHANGED <<nargs, files, pc, filters, exitStatus>>

\* lines 13-17, an element with nothing to write
SkipFilter ==
    /\ pc = "filters"
    /\ fi < Len(filters)
    /\ ~Emits(Stockid(filters[fi + 1]))
    /\ fi' = fi + 1
    /\ UNCHANGED <<nargs, files, pc, filters, out, exitStatus, events>>

\* line 13, the node list is exhausted
EndFilters ==
    /\ pc = "filters"
    /\ fi = Len(filters)
    /\ pc' = "for"
    /\ UNCHANGED <<nargs, files, filters, fi, out, exitStatus, events>>

\* Mutant: the suffix is written and the script ends with files still to open.
WriteSuffixEarly ==
    /\ pc = "for"
    /\ Len(files) <= nargs
    /\ out' = out \o Suffix
    /\ events' = Append(events, WriteEvent("suffix", Suffix))
    /\ pc' = "done"
    /\ exitStatus' = <<0>>
    /\ UNCHANGED <<nargs, files, filters, fi>>

\* lines 9 and 20: the argument list is exhausted, the suffix is written and
\* the script ends
WriteSuffix ==
    /\ pc = "for"
    /\ Len(files) = nargs
    /\ out' = out \o Suffix
    /\ events' = Append(events, WriteEvent("suffix", Suffix))
    /\ pc' = "done"
    /\ exitStatus' = <<0>>
    /\ UNCHANGED <<nargs, files, filters, fi>>

Next ==
    \/ WritePrefix
    \/ ParseOk
    \/ ParseRaises
    \/ WriteToken
    \/ SkipFilter
    \/ EndFilters
    \/ WriteSuffix

Spec == Init /\ [][Next]_vars

(***************************************************************************)
(* What the properties speak of, defined on the input files alone.         *)
(***************************************************************************)
IsPrefixOf(s, t) == Len(s) <= Len(t) /\ s = SubSeq(t, 1, Len(s))

\* The element carries the attribute with a non-empty value.
HasValue(e, name) == name \in DOMAIN e.attributes /\ e.attributes[name] # <<>>

RECURSIVE DocumentOrder(_)

\* All the elements below a sequence of siblings, in document order: the
\* order of their start tags.
DocumentOrder(nodes) ==
    Flatten([i \in 1..Len(nodes) |-> <<nodes[i]>> \o DocumentOrder(nodes[i].childNodes)])

IsPattern(e) == e.tagName = "pattern"

\* The identifier of an element: its inkscape:stockid if it has a non-empty
\* one, else its inkscape:label if it has a non-empty one, else none (<<>>).
IdentifierOf(e) ==
    IF HasValue(e, "inkscape:stockid") THEN e.attributes["inkscape:stockid"]
    ELSE IF HasValue(e, "inkscape:label") THEN e.attributes["inkscape:label"]
    ELSE <<>>

HasIdentifier(e) == HasValue(e, "inkscape:stockid") \/ HasValue(e, "inkscape:label")

\* The 'pattern' elements of a file with an identifier, in document order.
NamedPatterns(file) ==
    SelectSeq(DocumentOrder(file.childNodes), LAMBDA e : IsPattern(e) /\ HasIdentifier(e))

\* The identifiers of the named 'pattern' elements of the first n files.
IdentifiersOfFirst(n) ==
    LET ps == Flatten([k \in 1..n |-> NamedPatterns(files[k])])
    IN  [i \in 1..Len(ps) |-> IdentifierOf(ps[i])]

\* N_("id") without a delimiter
Marked(id) == <<"N", "_", "(", "\"">> \o id \o <<"\"", ")">>

\* The tokens a file is to yield, each with its delimiter.
TokensOf(file) ==
    LET ps == NamedPatterns(file)
    IN  [i \in 1..Len(ps) |-> Marked(IdentifierOf(ps[i])) \o <<",">>]

\* The tokens of the first n files, in order.
TokensOfFirst(n) == Flatten([k \in 1..n |-> TokensOf(files[k])])

\* The texts of the token writes made while the outer loop was at file k.
TokenWrites(k) ==
    LET ws == SelectSeq(events, LAMBDA ev : ev.op = "token" /\ ev.file = k)
    IN  [i \in 1..Len(ws) |-> ws[i].text]

NumEvents(what) == Cardinality({p \in DOMAIN events : events[p].op = what})

NumCommas == Cardinality({p \in DOMAIN out : out[p] = ","})

\* The inner loop is about to take an element.
AtFilter == pc = "filters" /\ fi < Len(filters)

(***************************************************************************)
(* C1: for every 'pattern' element the loop takes, the text appended to    *)
(* the output is the token of its inkscape:stockid when that attribute is  *)
(* present and non-empty, and otherwise the token of its inkscape:label    *)
(* (when that is present and non-empty); with a non-empty inkscape:stockid *)
(* nothing else, so no inkscape:label, is appended for the element.        *)
(***************************************************************************)
C1_StockidElseLabel ==
    [][AtFilter =>
         LET e == filters[fi + 1]
         IN  /\ HasValue(e, "inkscape:stockid") =>
                  out' = out \o Marked(e.attributes["inkscape:stockid"]) \o <<",">>
             /\ (~HasValue(e, "inkscape:stockid") /\ HasValue(e, "inkscape:label")) =>
                  out' = out \o Marked(e.attributes["inkscape:label"]) \o <<",">>]_vars

\* Three elements have been taken from one file: one with both attributes
\* non-empty, one with an empty stockid and a label, one with no stockid and
\* a label; the tokens written are a, b, b.
C1_Witness ==
    /\ pc = "filters"
    /\ fi = 3
    /\ HasValue(filters[1], "inkscape:stockid") /\ HasValue(filters[1], "inkscape:label")
    /\ "inkscape:stockid" \in DOMAIN filters[2].attributes
    /\ ~HasValue(filters[2], "inkscape:stockid") /\ HasValue(filters[2], "inkscape:label")
    /\ "inkscape:stockid" \notin DOMAIN filters[3].attributes
    /\ HasValue(filters[3], "inkscape:label")
    /\ out = Prefix \o Marked(<<"a">>) \o <<",">> \o Marked(<<"b">>) \o <<",">>
                \o Marked(<<"b">>) \o <<",">>

(***************************************************************************)
(* C2: only non-empty identifiers are emitted: the text N_("") occurs      *)
(* nowhere in the output, in any state, and taking a 'pattern' element     *)
(* whose inkscape:stockid and inkscape:label are both empty or absent      *)
(* leaves the output as it was (no token, no delimiter).                   *)
(***************************************************************************)
NoEmptyToken ==
    \A p \in 1..Len(out) :
        (out[p] = "N" /\ p + 5 <= Len(out)) => SubSeq(out, p, p + 5) # Marked(<<>>)

C2_OnlyNonEmpty ==
    /\ []NoEmptyToken
    /\ [][(AtFilter /\ ~HasIdentifier(filters[fi + 1])) => out' = out]_vars

\* Two elements without identifier have been taken (one with both attributes
\* empty, one with none of them), then one with an identifier: the output
\* has one token.
C2_Witness ==
    /\ pc = "filters"
    /\ fi = 3
    /\ DOMAIN filters[1].attributes = {"inkscape:stockid", "inkscape:label"}
    /\ ~HasIdentifier(filters[1])
    /\ DOMAIN filters[2].attributes = {}
    /\ HasIdentifier(filters[3])
    /\ NumEvents("token") = 1

(***************************************************************************)
(* C3: files are processed in the order of the arguments and elements in   *)
(* document order: the writes are ordered by the file they were made for,  *)
(* and the tokens written for a file are, in order, the tokens of its      *)
(* named 'pattern' elements in document order (all of them once the loop   *)
(* has gone on to a later file, the first of them while it is at the file).*)
(***************************************************************************)
C3_FileAndDocumentOrder ==
    /\ \A p, q \in DOMAIN events : p < q => events[p].file <= events[q].file
    /\ \A k \in 1..Len(files) :
        /\ IsPrefixOf(TokenWrites(k), TokensOf(files[k]))
        /\ k < Len(files) => TokenWrites(k) = TokensOf(files[k])

\* A run has ended that wrote two different tokens for its first file and
\* then one for its second.
C3_Witness ==
    /\ pc = "done"
    /\ Len(files) = 2
    /\ Len(TokenWrites(1)) = 2
    /\ TokenWrites(1)[1] # TokenWrites(1)[2]
    /\ Len(TokenWrites(2)) = 1

(***************************************************************************)
(* C4: a file that fails to parse ends the run at once: the exit status is *)
(* non-zero, no suffix is written, the failing file is the last one a      *)
(* parse was attempted on and nothing is written after that attempt; a run *)
(* never ends normally after a file failed to parse; a run that ends       *)
(* normally has parsed every argument and exits with status 0, and a run   *)
(* stops in no other way than these two.                                   *)
(***************************************************************************)
C4_ParseFailureAborts ==
    /\ \A k \in 1..Len(files) :
        ~files[k].wellformed =>
            /\ pc = "raised"
            /\ k = Len(files)
            /\ events[Len(events)] = [op |-> "parse", file |-> k, text |-> <<>>]
    /\ pc = "raised" =>
        /\ ~files[Len(files)].wellformed
        /\ Len(exitStatus) = 1 /\ exitStatus[1] # 0
        /\ NumEvents("suffix") = 0
        /\ SubSeq(out, Len(out) - 1, Len(out)) # Suffix
        /\ ~ENABLED Next
    /\ pc = "done" =>
        /\ exitStatus = <<0>>
        /\ Len(files) = nargs
        /\ \A k \in 1..nargs : files[k].wellformed
    /\ pc \notin {"raised", "done"} => (exitStatus = <<>> /\ ENABLED Next)

\* The first of two files, which has a 'pattern' element with an
\* identifier in its leading part, failed to parse.
C4_Witness ==
    /\ pc = "raised"
    /\ nargs = 2
    /\ Len(files) = 1
    /\ NamedPatterns(files[1]) # <<>>

(***************************************************************************)
(* C5: when the files of a run that ends normally hold no 'pattern'        *)
(* element at all (also when there is no file), the output is exactly      *)
(* char * stringlst = [];                                                  *)
(***************************************************************************)
NoPatternAtAll ==
    \A k \in 1..Len(files) :
        \A p \in DOMAIN DocumentOrder(files[k].childNodes) :
            ~IsPattern(DocumentOrder(files[k].childNodes)[p])

C5_NoPatternNoToken ==
    (pc = "done" /\ NoPatternAtAll) =>
        out = <<"c", "h", "a", "r", " ", "*", " ", "s", "t", "r", "i", "n", "g", "l", "s",
                "t", " ", "=", " ", "[", "]", ";">>

\* A run over two files that hold elements, none of them a 'pattern', has
\* ended.
C5_Witness ==
    /\ pc = "done"
    /\ Len(files) = 2
    /\ NoPatternAtAll
    /\ NumNodesOfFiles(files) = MaxNodes

(***************************************************************************)
(* C6 as stated: the output of a run that ends normally is the prefix,     *)
(* the tokens N_("id") joined by commas (a comma between consecutive       *)
(* tokens and nowhere else), and the suffix.                               *)
(***************************************************************************)
RECURSIVE Joined(_)

Joined(ts) ==
    IF ts = <<>> THEN <<>>
    ELSE IF Len(ts) = 1 THEN ts[1]
    ELSE ts[1] \o <<",">> \o Joined(Tail(ts))

C6_JoinedByCommas ==
    pc = "done" =>
        LET ids == IdentifiersOfFirst(nargs)
        IN  out = Prefix \o Joined([i \in 1..Len(ids) |-> Marked(ids[i])]) \o Suffix

(***************************************************************************)
(* C6 amended: the output of a run that ends normally is the prefix, then  *)
(* for each named 'pattern' element in turn N_("id") followed by a comma   *)
(* (so a comma stands between consecutive tokens and one more follows the  *)
(* last token), then the suffix.                                           *)
(***************************************************************************)
C6_EachFollowedByComma ==
    pc = "done" =>
        LET ids == IdentifiersOfFirst(nargs)
        IN  out = Prefix \o Flatten([i \in 1..Len(ids) |-> Marked(ids[i]) \o <<",">>])
                    \o Suffix

\* A run that wrote three tokens has ended.
C6_Witness == pc = "done" /\ Len(IdentifiersOfFirst(nargs)) = 3

(***************************************************************************)
(* C7: a delimiter follows every token, the last one too: in every state   *)
(* the output holds as many commas as tokens were written, the output ends *)
(* with a comma right after a token was written, and in a run that ends    *)
(* normally having written a token the suffix comes right after a comma.   *)
(***************************************************************************)
C7_DelimiterAfterEveryToken ==
    /\ NumCommas = NumEvents("token")
    /\ (events # <<>> /\ events[Len(events)].op = "token") => out[Len(out)] = ","
    /\ (pc = "done" /\ NumEvents("token") >= 1) =>
            SubSeq(out, Len(out) - 2, Len(out)) = <<",", "]", ";">>

\* A run that wrote two tokens has ended.
C7_Witness == pc = "done" /\ NumEvents("token") = 2 /\ NumCommas = 2

(***************************************************************************)
(* C8: in a run that ends normally the tokens written are, one for one,    *)
(* the 'pattern' elements of all the files, at any depth, that have an     *)
(* identifier: as many tokens as such elements, and each text N_("id"),    *)
(* written as many times as elements have the identifier id; elements      *)
(* with another tag name yield nothing.                                    *)
(***************************************************************************)
RECURSIVE NumNamedPatterns(_, _)

\* How many 'pattern' elements below the siblings have the identifier id.
NumNamedPatterns(nodes, id) ==
    IF nodes = <<>> THEN 0
    ELSE (IF IsPattern(Head(nodes)) /\ IdentifierOf(Head(nodes)) = id THEN 1 ELSE 0)
            + NumNamedPatterns(Head(nodes).childNodes, id)
            + NumNamedPatterns(Tail(nodes), id)

RECURSIVE NumInFiles(_, _)

NumInFiles(fs, id) ==
    IF fs = <<>> THEN 0
    ELSE NumNamedPatterns(Head(fs).childNodes, id) + NumInFiles(Tail(fs), id)

NumWritesOf(text) ==
    Cardinality({p \in DOMAIN events : events[p].op = "token" /\ events[p].text = text})

Identifiers == (StockidValues \cup LabelValues) \ {<<>>}

C8_OneTokenPerNamedPattern ==
    pc = "done" =>
        /\ \A id \in Identifiers : NumWritesOf(Marked(id) \o <<",">>) = NumInFiles(files, id)
        /\ NumEvents("token") = Len(IdentifiersOfFirst(nargs))

\* A run has ended on a file whose document element is no 'pattern' but has
\* both attributes, and holds a 'pattern' with a 'pattern' inside, both with
\* the same identifier.
C8_Witness ==
    /\ pc = "done"
    /\ Len(files) = 1
    /\ ~IsPattern(files[1].childNodes[1])
    /\ HasIdentifier(files[1].childNodes[1])
    /\ Len(files[1].childNodes[1].childNodes) = 1
    /\ Len(files[1].childNodes[1].childNodes[1].childNodes) = 1
    /\ NumInFiles(files, <<"a">>) = 2

(***************************************************************************)
(* C9: when the k-th file fails to parse, the output is the prefix and     *)
(* the tokens of the files 1..k-1, and nothing of the k-th file.           *)
(***************************************************************************)
C9_OutputAtFailure ==
    pc = "raised" => out = Prefix \o Flatten(TokensOfFirst(Len(files) - 1))

\* The second file failed to parse; the first yielded a token and the
\* leading part of the second holds a named 'pattern' element.
C9_Witness ==
    /\ pc = "raised"
    /\ Len(files) = 2
    /\ TokensOf(files[1]) # <<>>
    /\ NamedPatterns(files[2]) # <<>>

(***************************************************************************)
(* C10: the prefix is written exactly once, as the first thing a run does, *)
(* before any parse; the suffix is written at most once, only when every   *)
(* argument has been parsed and its elements taken, and nothing happens    *)
(* after it: it is the last write of a run that ends normally.             *)
(***************************************************************************)
C10_PrefixFirstSuffixLast ==
    /\ pc = "prefix" => events = <<>> /\ out = <<>>
    /\ pc # "prefix" =>
        /\ events[1] = [op |-> "prefix", file |-> 0, text |-> Prefix]
        /\ NumEvents("prefix") = 1
        /\ IsPrefixOf(Prefix, out)
    /\ NumEvents("suffix") <= 1
    /\ \A p \in DOMAIN events :
        events[p].op = "suffix" =>
            /\ p = Len(events)
            /\ pc = "done"
            /\ NumEvents("parse") = nargs
            /\ \A k \in 1..nargs : files[k].wellformed
            /\ fi = Len(filters)
    /\ pc = "done" =>
        /\ events[Len(events)].op = "suffix"
        /\ SubSeq(out, Len(out) - 1, Len(out)) = Suffix

\* A run over two files that wrote a token for each has ended.
C10_Witness ==
    /\ pc = "done"
    /\ nargs = 2
    /\ TokenWrites(1) # <<>>
    /\ TokenWrites(2) # <<>>

====
